---- MODULE Spec2Model ----
(***************************************************************************)
(* The in-memory request-rate limiter of the stock-watchlist backend       *)
(* (middleware/rateLimiter.js): class RateLimiter with its Map of          *)
(* per-identifier window entries, isAllowed and the periodic cleanup.      *)
(* JavaScript runs each call to completion, so every isAllowed call and    *)
(* every cleanup sweep is one atomic step; Date.now() is the variable now. *)
(* Further down: the routers that mount the limiter, the handlers         *)
(* registerUser, loginUser and addStock, whose steps are the stretches     *)
(* between two awaits, and connectDatabase with its retry timer.           *)
(***************************************************************************)
EXTENDS Integers, Naturals, Sequences, FiniteSets, TLC

(* ---- bounds of the model ---- *)
MaxTicks == 7            \* the clock runs from 0 to MaxTicks * TickMs
MaxRequestsBound == 2    \* constructor argument maxRequests ranges over 0..MaxRequestsBound
MaxCalls == 4            \* isAllowed calls followed per identifier and window
SweepRequestTicks == 1   \* under SpecSweep requests arrive during the first SweepRequestTicks ticks
MaxAdders == 3           \* addStock requests of one user in flight together
MaxFailures == 6         \* connection attempts the database server lets fail

(* ---- program constants ---- *)
MsPerSecond == 1000      \* the divisor of retryAfter
CleanupIntervalMs == 300000  \* setInterval(..., 5 * 60 * 1000)

TickMs == MsPerSecond \div 2
MaxTime == MaxTicks * TickMs

Limiters == {"L1", "L2"}
Ids == {"a", "b"}

\* new RateLimiter(windowMs, maxRequests): the arguments the instances are built with
WindowOf == [L1 |-> 3 * TickMs, L2 |-> 2 * TickMs]

VARIABLES
  now,          \* Date.now(), milliseconds
  windowMs,     \* this.windowMs of every instance
  maxRequests,  \* this.maxRequests of every instance
  requests,     \* the Map objects: key -> {count, resetTime, firstRequest}
  last,         \* history: the last step, its entry before the step and its result
  calls,        \* history: isAllowed calls per instance and key since the entry was created or reset
  admits,       \* history: allowed decisions per instance and key since the entry was created or reset
  admitLog,     \* history: the allowed decisions of the last windowMs, oldest first
  noSweep,      \* history: the Maps of the same instances had no sweep ever run
  advice,       \* history: now + 1000 * retryAfter of the latest call per instance and key while not overdue, else -1
  timer,        \* the time the setInterval timer of every instance is due next
  message,      \* the message argument captured by a createRateLimiter middleware
  http,         \* the request handled last: the handlers it ran, the headers set, the calls of next
  hist,         \* history: per instance and key, the windowStart recorded last and the retryAfter of its latest call if that was a denial of the window still open, else -1
  user,         \* the registerUser / loginUser call in progress
  watch,        \* the stocks collection and the addStock calls in progress
  db            \* connectDatabase: the connection, its retry timers and the database server

limiterVars == <<now, windowMs, maxRequests, requests, last, calls, admits, admitLog, noSweep,
                 advice, timer, message, http, hist>>
vars == <<now, windowMs, maxRequests, requests, last, calls, admits, admitLog, noSweep,
          advice, timer, message, http, hist, user, watch, db>>

Max(a, b) == IF a >= b THEN a ELSE b

\* Math.ceil(x / d) for integers x and d > 0
Ceil(x, d) == -((-x) \div d)

\* this.requests = new Map(): every instance owns the Map it constructed
MapOfShared(l) == "L1"
MapOf(l) == l

\* cleanup's test of one entry
IsStaleAtBoundary(data, t, w) == t - data.resetTime >= w
IsStale(data, t, w) == t - data.resetTime > w

\* isAllowed's test "window has expired"
WindowExpiredAtBoundary(data, t, w) == t - data.firstRequest >= w
WindowExpiredLate(data, t, w) == t - data.firstRequest > 2 * w
WindowExpired(data, t, w) == t - data.firstRequest > w

\* isAllowed's test "limit exceeded"
LimitExceededLate(data, m) == data.count > m
LimitExceeded(data, m) == data.count >= m

\* the entry written for a first request and for a reset
NewEntryZero(t) == [count |-> 0, resetTime |-> t, firstRequest |-> t]
NewEntry(t) == [count |-> 1, resetTime |-> t, firstRequest |-> t]

\* data.count++
IncrementLost(data) == data
Incremented(data) == [data EXCEPT !.count = @ + 1]

RetryAfterFloor(data, t, w) == (w - (t - data.firstRequest)) \div MsPerSecond
RetryAfter(data, t, w) == Ceil(w - (t - data.firstRequest), MsPerSecond)

\* Map.set(key, value)
MapSetOnly(map, key, value) == [k \in {key} |-> value]
MapSet(map, key, value) == [k \in DOMAIN map \cup {key} |-> IF k = key THEN value ELSE map[k]]

\* the Map after cleanup() ran at time t
CleanupMapClear(map, t, w) == [k \in {} |-> 0]
CleanupMap(map, t, w) ==
  LET kept == {k \in DOMAIN map : ~IsStale(map[k], t, w)}
  IN [k \in kept |-> map[k]]

\* the branch isAllowed takes
Branch(map, id, t, w, m) ==
  IF id \notin DOMAIN map THEN "first"
  ELSE IF WindowExpired(map[id], t, w) THEN "reset"
  ELSE IF LimitExceeded(map[id], m) THEN "deny"
  ELSE "increment"

\* the Map after isAllowed(id) ran at time t
IsAllowedMapCountsDenied(map, id, t, w, m) ==
  LET b == Branch(map, id, t, w, m)
  IN IF b \in {"first", "reset"} THEN MapSet(map, id, NewEntry(t))
     ELSE MapSet(map, id, Incremented(map[id]))
IsAllowedMapSlides(map, id, t, w, m) ==
  LET b == Branch(map, id, t, w, m)
  IN CASE b \in {"first", "reset"} -> MapSet(map, id, NewEntry(t))
       [] b = "deny" -> map
       [] b = "increment" -> MapSet(map, id, [Incremented(map[id]) EXCEPT !.firstRequest = t])
IsAllowedMap(map, id, t, w, m) ==
  LET b == Branch(map, id, t, w, m)
  IN CASE b \in {"first", "reset"} -> MapSet(map, id, NewEntry(t))
       [] b = "deny" -> map
       [] b = "increment" -> MapSet(map, id, Incremented(map[id]))

\* the object isAllowed(id) returns at time t
IsAllowedResult(map, id, t, w, m) ==
  LET b == Branch(map, id, t, w, m)
  IN CASE b \in {"first", "reset"} -> [allowed |-> TRUE, remaining |-> m - 1]
       [] b = "deny" -> [allowed |-> FALSE, remaining |-> 0,
                         retryAfter |-> RetryAfter(map[id], t, w),
                         resetTime |-> map[id].firstRequest + w]
       [] b = "increment" -> [allowed |-> TRUE, remaining |-> m - Incremented(map[id]).count]

EmptyMap == [k \in {} |-> 0]
NoStep == [op |-> "none", limiter |-> "-", identifier |-> "-", pre |-> {}, preAdmits |-> 0,
           preAdvice |-> -1, preStart |-> -1, preRetry |-> -1,
           removed |-> {}, res |-> [allowed |-> TRUE, remaining |-> 0], preNoSweep |-> {},
           resNoSweep |-> [allowed |-> TRUE, remaining |-> 0]]

\* undefined, where the model needs it as a value
Undefined == "undefined"
\* no request handled yet
NoHttp == [handler |-> "none", method |-> "-", resolvable |-> TRUE, ran |-> <<>>,
           effects |-> <<>>, writes |-> 0]

\* no window recorded for a key yet
NoHist == [start |-> -1, retry |-> -1]
\* the history of a key as time moves on to t: a denial is kept while its window is open
HistAt(h, t, w) == [h EXCEPT !.retry = IF t <= h.start + w THEN @ ELSE -1]

\* the entry of a key as a set: empty when the Map has no such key
Get(map, id) == IF id \in DOMAIN map THEN {map[id]} ELSE {}

\* no handler of the application running, connectDatabase not called
NoUser == [pc |-> "idle"]
NoWatch == [pc |-> "idle"]
NoDb == [pc |-> "idle"]
appVars == <<user, watch, db>>
AppIdle == user = NoUser /\ watch = NoWatch /\ db = NoDb

\* the state after the instances in built are constructed with any maxRequests
\* (the other instances get maxRequests = 1 and are not called)
Constructed(built) ==
  /\ now = 0
  /\ windowMs = [l \in Limiters |-> WindowOf[l]]
  /\ maxRequests \in [Limiters -> 0..MaxRequestsBound]
  /\ \A l \in Limiters \ built : maxRequests[l] = 1
  /\ requests = [l \in Limiters |-> EmptyMap]
  /\ noSweep = [l \in Limiters |-> EmptyMap]
  /\ last = NoStep
  /\ calls = [l \in Limiters |-> [id \in Ids |-> 0]]
  /\ admits = [l \in Limiters |-> [id \in Ids |-> 0]]
  /\ admitLog = [l \in Limiters |-> [id \in Ids |-> <<>>]]
  /\ advice = [l \in Limiters |-> [id \in Ids |-> -1]]
  /\ hist = [l \in Limiters |-> [id \in Ids |-> NoHist]]
  /\ AppIdle
  /\ timer = [l \in Limiters |-> now + CleanupIntervalMs]
  /\ message = Undefined
  /\ http = NoHttp

\* time passes between two callbacks
Tick ==
  /\ now + TickMs <= MaxTime
  /\ now' = now + TickMs
  /\ last' = [NoStep EXCEPT !.op = "tick"]
  /\ admitLog' = [l \in Limiters |-> [id \in Ids |->
        SelectSeq(admitLog[l][id], LAMBDA e : e.at >= now' - windowMs[l])]]
  /\ advice' = [l \in Limiters |-> [id \in Ids |->
        IF advice[l][id] >= now' THEN advice[l][id] ELSE -1]]
  /\ hist' = [l \in Limiters |-> [id \in Ids |-> HistAt(hist[l][id], now', windowMs[l])]]
  /\ UNCHANGED <<windowMs, maxRequests, requests, calls, admits, noSweep, timer, message, http>>
  /\ UNCHANGED appVars

\* limiter.isAllowed(identifier); cap bounds the calls followed per key and window
IsAllowedUpTo(l, id, cap) ==
  LET map == requests[MapOf(l)]
      w == windowMs[l]
      m == maxRequests[l]
      b == Branch(map, id, now, w, m)
      res == IsAllowedResult(map, id, now, w, m)
      fresh == b \in {"first", "reset"}
  IN /\ fresh \/ calls[l][id] < cap
     /\ requests' = [requests EXCEPT ![MapOf(l)] = IsAllowedMap(map, id, now, w, m)]
     /\ noSweep' = [noSweep EXCEPT ![l] = IsAllowedMap(@, id, now, w, m)]
     /\ last' = [op |-> "isAllowed", limiter |-> l, identifier |-> id,
                 pre |-> Get(map, id), preAdmits |-> admits[l][id],
                 preAdvice |-> advice[l][id], preStart |-> hist[l][id].start,
                 preRetry |-> hist[l][id].retry, removed |-> {}, res |-> res,
                 preNoSweep |-> Get(noSweep[l], id),
                 resNoSweep |-> IsAllowedResult(noSweep[l], id, now, w, m)]
     /\ calls' = [calls EXCEPT ![l][id] = IF fresh THEN 1 ELSE @ + 1]
     /\ admits' = [admits EXCEPT ![l][id] =
                     IF fresh THEN 1 ELSE IF res.allowed THEN @ + 1 ELSE @]
     /\ admitLog' = [admitLog EXCEPT ![l][id] =
                     IF res.allowed THEN Append(@, [at |-> now, first |-> fresh]) ELSE @]
     /\ advice' = [advice EXCEPT ![l][id] =
                     IF res.allowed THEN -1 ELSE now + MsPerSecond * res.retryAfter]
     /\ hist' = [hist EXCEPT ![l][id] =
                   [start |-> requests'[MapOf(l)][id].firstRequest,
                    retry |-> IF res.allowed THEN -1 ELSE res.retryAfter]]
     /\ UNCHANGED <<now, windowMs, maxRequests, timer, message>>
     /\ UNCHANGED appVars

\* limiter.isAllowed(identifier), called directly
IsAllowed(l, id) == IsAllowedUpTo(l, id, MaxCalls) /\ UNCHANGED http

\* this.cleanup()
Sweep(l) ==
  LET map == requests[MapOf(l)]
      after == CleanupMap(map, now, windowMs[l])
  IN /\ requests' = [requests EXCEPT ![MapOf(l)] = after]
     /\ last' = [NoStep EXCEPT !.op = "cleanup", !.limiter = l,
                                !.removed = DOMAIN map \ DOMAIN after]
     /\ UNCHANGED <<now, windowMs, maxRequests, calls, admits, admitLog, noSweep,
                     advice, message, http, hist>>
     /\ UNCHANGED appVars

\* a sweep at any time
Cleanup(l) == Sweep(l) /\ UNCHANGED timer

\* one instance serving every identifier
Init == Constructed({"L1"})

Next ==
  \/ Tick
  \/ \E id \in Ids : IsAllowed("L1", id)
  \/ Cleanup("L1")

Spec == Init /\ [][Next]_vars

\* every instance serving one identifier
InitInstances == Constructed(Limiters)

NextInstances ==
  \/ Tick
  \/ \E l \in Limiters : IsAllowed(l, "a")
  \/ \E l \in Limiters : Cleanup(l)

SpecInstances == InitInstances /\ [][NextInstances]_vars

(* ---- the instances of the module and their sweep timers ---- *)
ModuleLimiters == {"general", "strict"}
\* new RateLimiter(15 * 60 * 1000, 100) and new RateLimiter(60 * 1000, 10)
ModuleWindow == [general |-> 15 * 60 * 1000, strict |-> 60 * 1000]
ModuleMax == [general |-> 100, strict |-> 10]

\* the state after the instances of DOMAIN windows are constructed at time 0 with these
\* windowMs and maxRequests, serving the identifiers ids
LimiterLoaded(windows, maxes, ids) ==
  /\ now = 0
  /\ windowMs = windows
  /\ maxRequests = maxes
  /\ requests = [l \in DOMAIN windows |-> EmptyMap]
  /\ noSweep = [l \in DOMAIN windows |-> EmptyMap]
  /\ last = NoStep
  /\ calls = [l \in DOMAIN windows |-> [id \in ids |-> 0]]
  /\ admits = [l \in DOMAIN windows |-> [id \in ids |-> 0]]
  /\ admitLog = [l \in DOMAIN windows |-> [id \in ids |-> <<>>]]
  /\ advice = [l \in DOMAIN windows |-> [id \in ids |-> -1]]
  /\ hist = [l \in DOMAIN windows |-> [id \in ids |-> NoHist]]
  /\ timer = [l \in DOMAIN windows |-> now + CleanupIntervalMs]
  /\ http = NoHttp

\* the same, no handler of the application running
Loaded(windows, maxes, ids) == LimiterLoaded(windows, maxes, ids) /\ AppIdle

\* the state after the module is loaded at time 0, serving the identifiers ids
ModuleLoaded(ids) == Loaded(ModuleWindow, ModuleMax, ids) /\ message = Undefined

\* time passes between two callbacks, step milliseconds at a time up to horizon
Elapse(step, horizon) ==
  /\ now + step <= horizon
  /\ now' = now + step
  /\ last' = [NoStep EXCEPT !.op = "tick"]
  /\ admitLog' = [l \in DOMAIN admitLog |-> [id \in DOMAIN admitLog[l] |->
        SelectSeq(admitLog[l][id], LAMBDA e : e.at >= now' - windowMs[l])]]
  /\ advice' = [l \in DOMAIN advice |-> [id \in DOMAIN advice[l] |->
        IF advice[l][id] >= now' THEN advice[l][id] ELSE -1]]
  /\ hist' = [l \in DOMAIN hist |-> [id \in DOMAIN hist[l] |->
        HistAt(hist[l][id], now', windowMs[l])]]
  /\ UNCHANGED <<windowMs, maxRequests, requests, calls, admits, noSweep, timer, message, http>>
  /\ UNCHANGED appVars

\* setInterval re-arms the timer when its callback has run
NextFireOnce(t) == -1
NextFire(t) == t + CleanupIntervalMs

\* the setInterval callback of an instance, run when the timer is due (or later)
SweepTimer(l) ==
  /\ timer[l] >= 0
  /\ now >= timer[l]
  /\ Sweep(l)
  /\ timer' = [timer EXCEPT ![l] = NextFire(now)]

SweepTickMs == CleanupIntervalMs \div 2
SweepRequestHorizon == SweepRequestTicks * SweepTickMs
\* long enough for the longest window to expire and a sweep to follow
SweepHorizon == SweepRequestHorizon + ModuleWindow["general"] + 2 * CleanupIntervalMs

\* one client
SweepIds == {"a"}
InitSweep == ModuleLoaded(SweepIds)

SweepClock == Elapse(SweepTickMs, SweepHorizon)

NextSweep ==
  \/ SweepClock
  \/ \E l \in ModuleLimiters, id \in SweepIds : now <= SweepRequestHorizon /\ IsAllowed(l, id)
  \/ \E l \in ModuleLimiters : SweepTimer(l)

\* the clock keeps advancing and the timers keep firing
SpecSweep ==
  /\ InitSweep /\ [][NextSweep]_vars
  /\ WF_vars(SweepClock)
  /\ \A l \in ModuleLimiters : WF_vars(SweepTimer(l))

(* ---- the middlewares ---- *)
\* the methods strictRateLimiter applies to
WriteMethodsAndGet == {"GET", "POST", "PUT", "PATCH", "DELETE"}
WriteMethods == {"POST", "PUT", "PATCH", "DELETE"}

\* a JavaScript value that || passes over
Falsy(v) == v = Undefined \/ v = ""

\* the first element of a header value: the header is held as the list of its
\* comma-separated elements, <<>> for a header that is not there
FirstElement(header) == IF header = <<>> THEN Undefined ELSE header[1]

\* req.ip || req.connection?.remoteAddress || req.socket?.remoteAddress ||
\* req.headers['x-forwarded-for']?.split(',')[0] || 'unknown'
ResolveIdentifierNoFallback(req) ==
  IF ~Falsy(req.ip) THEN req.ip
  ELSE IF ~Falsy(req.connectionRemoteAddress) THEN req.connectionRemoteAddress
  ELSE IF ~Falsy(req.socketRemoteAddress) THEN req.socketRemoteAddress
  ELSE IF ~Falsy(FirstElement(req.xForwardedFor)) THEN FirstElement(req.xForwardedFor)
  ELSE ""
ResolveIdentifier(req) ==
  IF ~Falsy(req.ip) THEN req.ip
  ELSE IF ~Falsy(req.connectionRemoteAddress) THEN req.connectionRemoteAddress
  ELSE IF ~Falsy(req.socketRemoteAddress) THEN req.socketRemoteAddress
  ELSE IF ~Falsy(FirstElement(req.xForwardedFor)) THEN FirstElement(req.xForwardedFor)
  ELSE "unknown"

\* the instance a middleware evaluates
LimiterOf == [rateLimiter |-> "general", strictRateLimiter |-> "strict", custom |-> "custom"]

\* next() and next(new AppError(message, statusCode))
NextOk == [error |-> FALSE]
NextError(msg, status) == [error |-> TRUE, message |-> msg, statusCode |-> status]

\* the message of the error a middleware passes on for a denial
DenialMessageNoDefault(mw, msg) == msg
DenialMessage(mw, msg) ==
  CASE mw = "rateLimiter" -> "Too many requests. Please try again later."
    [] mw = "strictRateLimiter" -> "Too many write requests. Please slow down."
    [] mw = "custom" -> IF Falsy(msg) THEN "Rate limit exceeded" ELSE msg

\* the calls a middleware makes on res and next, in order
SetHeader(name, value) == [op |-> "set", name |-> name, value |-> value]
CallNext(arg) == [op |-> "next", arg |-> arg]

\* res.set({...}) of the three rate-limit headers
LimitHeaders(mw, w, m, res) ==
  IF mw = "strictRateLimiter"
  THEN <<SetHeader("X-RateLimit-Strict-Limit", m),
         SetHeader("X-RateLimit-Strict-Remaining", res.remaining),
         SetHeader("X-RateLimit-Strict-Window", Ceil(w, MsPerSecond))>>
  ELSE <<SetHeader("X-RateLimit-Limit", m),
         SetHeader("X-RateLimit-Remaining", res.remaining),
         SetHeader("X-RateLimit-Window", Ceil(w, MsPerSecond))>>

\* what a middleware does with the result of isAllowed
RespondFallsThrough(mw, w, m, msg, res) ==
  LimitHeaders(mw, w, m, res) \o
    (IF res.allowed THEN <<CallNext(NextOk)>>
     ELSE <<SetHeader("Retry-After", res.retryAfter),
            CallNext(NextError(DenialMessage(mw, msg), 429)), CallNext(NextOk)>>)
Respond(mw, w, m, msg, res) ==
  LimitHeaders(mw, w, m, res) \o
    (IF res.allowed THEN <<CallNext(NextOk)>>
     ELSE <<SetHeader("Retry-After", res.retryAfter),
            CallNext(NextError(DenialMessage(mw, msg), 429))>>)

\* strictRateLimiter's test of the method: does the middleware evaluate the request
Applies(mw, method) == mw = "strictRateLimiter" => method \in WriteMethods

\* the result isAllowed is about to return to the middleware
Decision(l, id) == IsAllowedResult(requests[MapOf(l)], id, now, windowMs[l], maxRequests[l])

\* one of the exported middlewares called with (req, res, next); cap bounds the calls
\* followed per identifier
Middleware(mw, req, cap) ==
  LET l == LimiterOf[mw]
      id == ResolveIdentifier(req)
      out == Respond(mw, windowMs[l], maxRequests[l], message, Decision(l, id))
      seen == [handler |-> mw, method |-> req.method,
               resolvable |-> \E v \in {req.ip, req.connectionRemoteAddress,
                                       req.socketRemoteAddress, FirstElement(req.xForwardedFor)} :
                                 v # Undefined /\ v # "",
               ran |-> <<mw>>, writes |-> 0]
  IN IF Applies(mw, req.method)
     THEN /\ IsAllowedUpTo(l, id, cap)
          /\ http' = seen @@ [effects |-> out]
     ELSE /\ http' = seen @@ [effects |-> <<CallNext(NextOk)>>]
          /\ last' = [NoStep EXCEPT !.op = "passThrough"]
          /\ UNCHANGED <<now, windowMs, maxRequests, requests, calls, admits, admitLog,
                          noSweep, advice, timer, message, hist>>
          /\ UNCHANGED appVars

(* ---- the three middlewares called one request at a time ---- *)
\* the address of the one client
Client == "1.2.3.4"
\* a request of the client with its address in req.ip
ClientRequest(method) ==
  [method |-> method, ip |-> Client, connectionRemoteAddress |-> Undefined,
   socketRemoteAddress |-> Undefined, xForwardedFor |-> <<>>]

Middlewares == {"rateLimiter", "strictRateLimiter", "custom"}
RequestMethods == {"GET", "POST", "DELETE"}
\* createRateLimiter(windowMs, maxRequests, message)
CustomWindow == [custom |-> 3 * TickMs]
CustomMessages == {Undefined, "Slow down"}

InitMiddleware ==
  /\ \E m \in 0..MaxRequestsBound :
       Loaded(ModuleWindow @@ CustomWindow, ModuleMax @@ [custom |-> m], {Client})
  /\ message \in CustomMessages

\* every middleware is followed up to its first denial
NextMiddleware ==
  \E mw \in Middlewares, method \in RequestMethods :
    Middleware(mw, ClientRequest(method), maxRequests[LimiterOf[mw]] + 1)

SpecMiddleware == InitMiddleware /\ [][NextMiddleware]_vars

(* ---- the routers of /api/users and /api/stocks ---- *)
Use(handler) == [kind |-> "use", method |-> "*", path |-> "*", handlers |-> <<handler>>]
Route(method, path, handlers) == [kind |-> "route", method |-> method, path |-> path, handlers |-> handlers]

\* routes/users.js
UsersRouter ==
  << Use("rateLimiter"),
     Route("POST", "/register", <<"validateRegistration", "registerUser">>),
     Route("POST", "/login", <<"validateLogin", "loginUser">>),
     Use("authenticateToken"),
     Route("GET", "/profile", <<"getProfile">>) >>

\* routes/stocks.js
StocksRouterSearchUnlimited ==
  << Route("GET", "/search", <<"searchStocks">>),
     Use("rateLimiter"),
     Use("authenticateToken"),
     Route("GET", "/", <<"getAllStocks">>),
     Route("POST", "/", <<"validateRequest", "addStock">>),
     Route("DELETE", "/:symbol", <<"removeStock">>) >>
StocksRouter ==
  << Use("rateLimiter"),
     Route("GET", "/search", <<"searchStocks">>),
     Use("authenticateToken"),
     Route("GET", "/", <<"getAllStocks">>),
     Route("POST", "/", <<"validateRequest", "addStock">>),
     Route("DELETE", "/:symbol", <<"removeStock">>) >>

\* app.use('/api/users', userRoutes); app.use('/api/stocks', stockRoutes)
AppRouter(group) == IF group = "users" THEN UsersRouter ELSE StocksRouter

Controllers == {"registerUser", "loginUser", "getProfile", "searchStocks", "getAllStocks",
                "addStock", "removeStock"}
Validators == {"validateRegistration", "validateLogin", "validateRequest"}

\* the paths below a router's mount point, one segment each
PathMatches(pattern, path) == pattern = path \/ (pattern = "/:symbol" /\ path # "/")
LayerMatches(layer, req) ==
  layer.kind = "use" \/ (layer.method = req.method /\ PathMatches(layer.path, req.path))

\* the handlers of the layers that match the request, in the order of the stack
RECURSIVE HandlersFrom(_, _, _)
HandlersFrom(stack, req, i) ==
  IF i > Len(stack) THEN <<>>
  ELSE (IF LayerMatches(stack[i], req) THEN stack[i].handlers ELSE <<>>)
         \o HandlersFrom(stack, req, i + 1)

\* how a handler ends: next(), next(error) or a response
Outcome(handler, req, allowed) ==
  CASE handler = "rateLimiter" -> IF allowed THEN "next" ELSE "error"
    [] handler = "authenticateToken" -> IF req.fails = "authenticateToken" THEN "error" ELSE "next"
    [] handler \in {"validateRegistration", "validateLogin"} -> "next"
    [] handler = "validateRequest" -> IF req.fails = "validateRequest" THEN "error" ELSE "next"
    [] handler \in Controllers -> IF req.fails = "controller" THEN "error" ELSE "respond"

\* the handlers a request runs: an error skips to the error handler of app.js, a
\* request no handler answers ends in its 404 handler
RECURSIVE RunFrom(_, _, _, _)
RunFrom(handlers, req, allowed, i) ==
  IF i > Len(handlers) THEN <<"notFound">>
  ELSE LET o == Outcome(handlers[i], req, allowed)
       IN <<handlers[i]>> \o
            (CASE o = "next" -> RunFrom(handlers, req, allowed, i + 1)
               [] o = "error" -> <<"errorHandler">>
               [] o = "respond" -> <<>>)

\* the paths asked for below each mount point; "/" of the users router and "/AAPL"
\* with a method other than DELETE have no route
RouteTargets ==
  {[group |-> "users", path |-> "/register"], [group |-> "users", path |-> "/login"],
   [group |-> "users", path |-> "/profile"], [group |-> "users", path |-> "/"],
   [group |-> "stocks", path |-> "/search"], [group |-> "stocks", path |-> "/"],
   [group |-> "stocks", path |-> "/AAPL"]}
\* the handler that ends the request with next(error), if it is reached
Failures == {"none", "authenticateToken", "validateRequest", "controller"}
\* whether the request has a handler of that kind on its way
HasHandler(req, f) ==
  LET handlers == HandlersFrom(AppRouter(req.group), req, 1)
  IN \E i \in DOMAIN handlers :
       handlers[i] = f \/ (f = "controller" /\ handlers[i] \in Controllers)
\* the requests of the client; a failure is one of a handler the request has
RouteRequests ==
  {req \in {ClientRequest(m) @@ t @@ [fails |-> f] :
               m \in RequestMethods, t \in RouteTargets, f \in Failures} :
     req.fails = "none" \/ HasHandler(req, req.fails)}

\* a request dispatched to one of the two routers
Dispatch(req, cap) ==
  LET id == ResolveIdentifier(req)
      dec == Decision("general", id)
      ran == RunFrom(HandlersFrom(AppRouter(req.group), req, 1), req, dec.allowed, 1)
      limited == \E i \in DOMAIN ran : ran[i] = "rateLimiter"
      seen == [handler |-> "router", method |-> req.method, resolvable |-> TRUE, ran |-> ran,
               writes |-> IF req.method \in WriteMethods /\ http.writes <= maxRequests["strict"]
                          THEN http.writes + 1 ELSE http.writes]
  IN IF limited
     THEN /\ IsAllowedUpTo("general", id, cap)
          /\ http' = seen @@ [effects |-> Respond("rateLimiter", windowMs["general"],
                                                  maxRequests["general"], message, dec)]
     ELSE /\ http' = seen @@ [effects |-> <<>>]
          /\ last' = [NoStep EXCEPT !.op = "passThrough"]
          /\ UNCHANGED <<now, windowMs, maxRequests, requests, calls, admits, admitLog,
                          noSweep, advice, timer, message, hist>>
          /\ UNCHANGED appVars

InitRoutes == ModuleLoaded({Client})

\* the client is followed up to its first denial
NextRoutes == \E req \in RouteRequests : Dispatch(req, maxRequests["general"] + 1)

SpecRoutes == InitRoutes /\ [][NextRoutes]_vars

(* ---- requests with and without a resolvable identifier ---- *)
\* what the chain of lines 137-141 may find: any of the four sources missing, empty or set
FallbackRequests ==
  {[method |-> "GET", ip |-> ip, connectionRemoteAddress |-> c,
    socketRemoteAddress |-> so, xForwardedFor |-> x] :
     ip \in {Undefined, "", Client}, c \in {Undefined, Client}, so \in {Undefined, ""},
     x \in {<<>>, <<"">>, <<"", Client>>, <<Client, "10.0.0.1">>}}

\* the keys the chain can produce
FallbackIds == {Client, "unknown", ""}
FallbackHorizon == 2 * CustomWindow["custom"]

InitFallback ==
  \E m \in 0 .. MaxRequestsBound :
    /\ Loaded(CustomWindow, [custom |-> m], FallbackIds)
    /\ message = Undefined

FallbackClock == Elapse(TickMs, FallbackHorizon)

NextFallback ==
  \/ FallbackClock
  \/ \E req \in FallbackRequests : Middleware("custom", req, maxRequests["custom"] + 1)

SpecFallback == InitFallback /\ [][NextFallback]_vars

(* ---- registerUser and loginUser (controllers/userController.js) ---- *)
UserHandlers == {"registerUser", "loginUser"}
\* req.body as the handlers read it: whether express-validator found errors, and whether
\* email, username and password are strings; a body that passes validation has them
UserRequests ==
  {r \in [valid : BOOLEAN, email : {"string", Undefined}, username : {"string", Undefined},
          password : {"string", Undefined}] :
     r.valid => r.email = "string" /\ r.username = "string" /\ r.password = "string"}

\* an error that is not an AppError, passed on as it is
Thrown == NextError("thrown", 500)
\* what a handler did so far: next(err), a query, a save, a token, a response
Did(op) == [op |-> op]
\* the handler's catch block
Caught(err) == <<CallNext(err)>>

\* registerUser(req, res, next) or loginUser(req, res, next) is called
UserCall(h, req) ==
  /\ user = NoUser
  /\ user' = [pc |-> "validate", handler |-> h, req |-> req, did |-> <<>>]
  /\ UNCHANGED <<limiterVars, watch, db>>

\* checkValidationErrors(req, next): the helper returns, the handler goes on
CheckValidationErrors ==
  /\ user.pc = "validate"
  /\ user' = [user EXCEPT
       !.did = IF user.req.valid THEN @
               ELSE @ \o <<CallNext(NextError("validation", 400))>>,
       !.pc = "lookup"]
  /\ UNCHANGED <<limiterVars, watch, db>>

\* registerUser: await User.findOne({$or: [{email: email.toLowerCase()}, ...]})
FindExisting ==
  /\ user.pc = "lookup" /\ user.handler = "registerUser"
  /\ IF user.req.email = Undefined \/ user.req.username = Undefined
     THEN \* undefined.toLowerCase() throws
          user' = [user EXCEPT !.did = @ \o Caught(Thrown), !.pc = "done"]
     ELSE \E found \in {"none", "email", "username", "rejected"} :
            user' = [user EXCEPT
              !.did = @ \o <<Did("findOne")>> \o
                        (CASE found = "none" -> <<>>
                           [] found = "email" -> <<CallNext(NextError("Email already registered", 409))>>
                           [] found = "username" -> <<CallNext(NextError("Username already taken", 409))>>
                           [] found = "rejected" -> Caught(Thrown)),
              !.pc = IF found = "none" THEN "create" ELSE "done"]
  /\ UNCHANGED <<limiterVars, watch, db>>

\* registerUser: new User({...}); await user.save()
CreateUser ==
  /\ user.pc = "create"
  /\ \E saved \in {"ok", "duplicate", "rejected"} :
       user' = [user EXCEPT
         !.did = @ \o <<Did("save")>> \o
                   (CASE saved = "ok" -> <<>>
                      [] saved = "duplicate" -> Caught(NextError("already exists", 409))
                      [] saved = "rejected" -> Caught(Thrown)),
         !.pc = IF saved = "ok" THEN "token" ELSE "done"]
  /\ UNCHANGED <<limiterVars, watch, db>>

\* loginUser: await User.findByCredentials(email, password)
FindByCredentials ==
  /\ user.pc = "lookup" /\ user.handler = "loginUser"
  /\ \E found \in {"user", "invalid", "rejected"} :
       user' = [user EXCEPT
         !.did = @ \o <<Did("findByCredentials")>> \o
                   (CASE found = "user" -> <<>>
                      [] found = "invalid" -> Caught(NextError("Invalid email or password", 401))
                      [] found = "rejected" -> Caught(Thrown)),
         !.pc = IF found = "user" THEN "token" ELSE "done"]
  /\ UNCHANGED <<limiterVars, watch, db>>

\* generateToken(user._id); user.lastLogin = new Date(); await user.save()
TokenAndLastLogin ==
  /\ user.pc = "token"
  /\ \E saved \in {"ok", "rejected"} :
       user' = [user EXCEPT
         !.did = @ \o <<Did("generateToken"), Did("save")>> \o
                   (IF saved = "ok" THEN <<>> ELSE Caught(Thrown)),
         !.pc = IF saved = "ok" THEN "respond" ELSE "done"]
  /\ UNCHANGED <<limiterVars, watch, db>>

\* res.status(201 or 200).json(...): it throws when the error handler has answered
\* the request already
SendJson ==
  /\ user.pc = "respond"
  /\ \E sent \in BOOLEAN :
       /\ ~sent => \E i \in DOMAIN user.did : user.did[i].op = "next"
       /\ user' = [user EXCEPT
            !.did = @ \o <<Did("json")>> \o (IF sent THEN <<>> ELSE Caught(Thrown)),
            !.pc = "done"]
  /\ UNCHANGED <<limiterVars, watch, db>>

\* the handler has returned; the next request may come
UserReturn ==
  /\ user.pc = "done"
  /\ user' = NoUser
  /\ UNCHANGED <<limiterVars, watch, db>>

InitAuth == ModuleLoaded({Client})

NextAuth ==
  \/ \E h \in UserHandlers, req \in UserRequests : UserCall(h, req)
  \/ CheckValidationErrors
  \/ FindExisting
  \/ CreateUser
  \/ FindByCredentials
  \/ TokenAndLastLogin
  \/ SendJson
  \/ UserReturn

SpecAuth == InitAuth /\ [][NextAuth]_vars

(* ---- addStock (controllers/stockController.js) and the stocks collection ---- *)
Adders == 1 .. MaxAdders
\* req.body.symbol as sent, and symbol.toUpperCase().trim()
RawSymbols == {"aapl", " AAPL ", "msft"}
NormalizedSymbol == [r \in RawSymbols |-> IF r \in {"aapl", " AAPL "} THEN "AAPL" ELSE "MSFT"]
Symbols == {NormalizedSymbol[r] : r \in RawSymbols}

\* stockSchema.index({user: 1, symbol: 1}, {unique: true}): an insert is accepted when
\* the collection holds no record of the user with that symbol
InsertAcceptedAlways(records) == TRUE
InsertAccepted(records) == records = 0

DuplicateStock == NextError("Stock already exists in your watchlist", 409)
\* no answer yet
NoAnswer == [statusCode |-> 0]
\* a request: its place in addStock, its normalized symbol, its answer and, as history,
\* the line that found the duplicate
NoAdder == [pc |-> "new", symbol |-> "-", out |-> NoAnswer, by |-> "-"]

\* the collection of one user holds any of the symbols, once each, and no request is
\* being handled
WatchLoaded ==
  /\ \E held \in [Symbols -> {0, 1}] :
       watch = [pc |-> "serving", initial |-> held, records |-> held,
                reqs |-> [r \in Adders |-> NoAdder]]
  /\ user = NoUser /\ db = NoDb

\* addStock(req, res, next) is called with a symbol: normalizedSymbol is computed
AddStockCall(r, raw) ==
  /\ watch.reqs[r].pc = "new"
  /\ watch' = [watch EXCEPT !.reqs[r] = [pc |-> "findOne", symbol |-> NormalizedSymbol[raw],
                                         out |-> NoAnswer, by |-> "-"]]
  /\ UNCHANGED <<limiterVars, user, db>>

\* await Stock.findOne({symbol: normalizedSymbol, user: req.user.id}) and the test of
\* its result
FindOneStock(r) ==
  /\ watch.reqs[r].pc = "findOne"
  /\ watch' = IF watch.records[watch.reqs[r].symbol] > 0
              THEN [watch EXCEPT !.reqs[r].pc = "done", !.reqs[r].out = DuplicateStock,
                                 !.reqs[r].by = "findOne"]
              ELSE [watch EXCEPT !.reqs[r].pc = "save"]
  /\ UNCHANGED <<limiterVars, user, db>>

\* await newStock.save(): the insert, or the duplicate-key error 11000 and the catch block
SaveStock(r) ==
  /\ watch.reqs[r].pc = "save"
  /\ watch' = IF InsertAccepted(watch.records[watch.reqs[r].symbol])
              THEN [watch EXCEPT !.records[watch.reqs[r].symbol] = @ + 1,
                                 !.reqs[r].pc = "respond"]
              ELSE [watch EXCEPT !.reqs[r].pc = "done", !.reqs[r].out = DuplicateStock,
                                 !.reqs[r].by = "save"]
  /\ UNCHANGED <<limiterVars, user, db>>

\* res.status(201).json(...)
RespondCreated(r) ==
  /\ watch.reqs[r].pc = "respond"
  /\ watch' = [watch EXCEPT !.reqs[r].pc = "done", !.reqs[r].out = [statusCode |-> 201]]
  /\ UNCHANGED <<limiterVars, user, db>>

InitWatch ==
  /\ LimiterLoaded(ModuleWindow, ModuleMax, {Client})
  /\ message = Undefined
  /\ WatchLoaded

NextWatch ==
  \/ \E r \in Adders, raw \in RawSymbols : AddStockCall(r, raw)
  \/ \E r \in Adders : FindOneStock(r)
  \/ \E r \in Adders : SaveStock(r)
  \/ \E r \in Adders : RespondCreated(r)

SpecWatch == InitWatch /\ [][NextWatch]_vars

(* ---- connectDatabase (utils/database.js) ---- *)
\* setTimeout(..., 5000) of the catch block, serverSelectionTimeoutMS of the options
RetryDelayMs == 5000
ServerSelectionTimeoutMs == 5000
\* databaseConfig.retry.maxRetries of config/database.js, which connectDatabase does not read
MaxRetries == 5

ConnectTickMs == RetryDelayMs \div 2
\* long enough for every failing attempt to time out and be retried
ConnectHorizon == (MaxFailures + 1) * (ServerSelectionTimeoutMs + RetryDelayMs)

\* the catch block: the timers pending after the attempt that failed at time at, the
\* failures counted so far
ScheduleRetryCapped(timers, at, failures) ==
  IF failures <= MaxRetries THEN Append(timers, at + RetryDelayMs) ELSE timers
ScheduleRetry(timers, at, failures) == Append(timers, at + RetryDelayMs)

\* app.js has called connectDatabase(): the first attempt is under way, the server
\* reachable or not
InitConnect ==
  /\ LimiterLoaded(ModuleWindow, ModuleMax, {Client})
  /\ message = Undefined
  /\ user = NoUser /\ watch = NoWatch
  /\ \E up \in BOOLEAN :
       db = [pc |-> "connecting", at |-> 0, up |-> up, failures |-> 0, timers |-> <<>>,
             started |-> 0]

\* the database server becomes reachable or unreachable
ServerChanges ==
  /\ db.pc # "idle"
  /\ db' = [db EXCEPT !.up = ~@]
  /\ UNCHANGED <<limiterVars, user, watch>>

\* time passes: a pending timer fires when due, an attempt ends within its timeout
ConnectClock ==
  /\ db.pc # "idle"
  /\ db.at + ConnectTickMs <= ConnectHorizon
  /\ \A i \in DOMAIN db.timers : db.at + ConnectTickMs <= db.timers[i]
  /\ db.pc = "connecting" => db.at + ConnectTickMs <= db.started + ServerSelectionTimeoutMs
  /\ db' = [db EXCEPT !.at = @ + ConnectTickMs]
  /\ UNCHANGED <<limiterVars, user, watch>>

\* await mongoose.connect(mongoURI, options) resolves: the listeners are registered and
\* conn is returned
ConnectSucceeds ==
  /\ db.pc = "connecting" /\ db.up
  /\ db' = [db EXCEPT !.pc = "connected"]
  /\ UNCHANGED <<limiterVars, user, watch>>

\* await mongoose.connect(mongoURI, options) rejects: the catch block
ConnectFails ==
  /\ db.pc = "connecting" /\ ~db.up
  /\ db.failures < MaxFailures
  /\ db' = [db EXCEPT !.pc = "waiting", !.failures = @ + 1,
                      !.timers = ScheduleRetry(@, db.at, db.failures + 1)]
  /\ UNCHANGED <<limiterVars, user, watch>>

\* the setTimeout callback: connectDatabase()
RetryTimerFires ==
  /\ db.pc # "idle"
  /\ db.timers # <<>> /\ db.at >= Head(db.timers)
  /\ db' = [db EXCEPT !.pc = "connecting", !.timers = Tail(@), !.started = db.at]
  /\ UNCHANGED <<limiterVars, user, watch>>

NextConnect ==
  \/ ServerChanges
  \/ ConnectClock
  \/ ConnectSucceeds
  \/ ConnectFails
  \/ RetryTimerFires

\* the clock advances, due timers fire and a connection the server accepts is made
SpecConnect ==
  /\ InitConnect /\ [][NextConnect]_vars
  /\ WF_vars(ConnectClock)
  /\ WF_vars(RetryTimerFires)
  /\ WF_vars(ConnectSucceeds)

TypeOK ==
  /\ now \in 0..MaxTime
  /\ \A l \in Limiters : DOMAIN requests[l] \subseteq Ids

(* ---- the step recorded in last ---- *)
Evaluated == last.op = "isAllowed"
Swept == last.op = "cleanup"
\* the instance's Map and configuration, and the entry the call found
LastMap == requests[last.limiter]
LastWindow == windowMs[last.limiter]
LastMax == maxRequests[last.limiter]
PreEntry == CHOOSE e \in last.pre : TRUE
\* the call found an entry whose window had not expired: now - windowStart <= windowDuration
FoundLive == last.pre # {} /\ now - PreEntry.firstRequest <= LastWindow
\* the call found an entry whose window had expired: now - windowStart > windowDuration
FoundExpired == last.pre # {} /\ now - PreEntry.firstRequest > LastWindow

\* C1: an evaluate call for an identifier with no entry in the store is allowed with
\* remaining = maxRequests - 1 and creates the entry {count: 1, windowStart: now},
\* for every maxRequests, 0 included.
C1_FirstRequestAdmitted ==
  (Evaluated /\ last.pre = {}) =>
    /\ last.res = [allowed |-> TRUE, remaining |-> LastMax - 1]
    /\ last.identifier \in DOMAIN LastMap
    /\ LastMap[last.identifier].count = 1
    /\ LastMap[last.identifier].firstRequest = now

C1_Witness ==
  /\ Evaluated /\ last.pre = {}
  /\ LastMax = 0
  /\ last.res.remaining = -1

\* C2: for maxRequests >= 1, the i-th call (i <= maxRequests) of a sequence of calls for
\* one identifier that starts at a created entry and stays within the window is allowed
\* and returns remaining = maxRequests - i, whatever else is interleaved.
C2_QuotaCountsDown ==
  \A l \in Limiters, id \in Ids :
    (/\ Evaluated /\ last.limiter = l /\ last.identifier = id
     /\ maxRequests[l] >= 1
     /\ calls[l][id] <= maxRequests[l]) =>
       /\ last.res.allowed
       /\ last.res.remaining = maxRequests[l] - calls[l][id]

C2_Witness ==
  /\ Evaluated /\ FoundLive
  /\ LastMax = MaxRequestsBound
  /\ calls[last.limiter][last.identifier] = LastMax
  /\ last.res = [allowed |-> TRUE, remaining |-> 0]
  /\ \E other \in DOMAIN LastMap : other # last.identifier

\* C3: once maxRequests calls have been admitted in the current window, the next call
\* made while now - windowStart <= windowDuration is denied with remaining = 0 and a
\* strictly positive retryAfter.
C3_DeniedWithPositiveRetryAfter ==
  (Evaluated /\ FoundLive /\ last.preAdmits >= LastMax) =>
    /\ ~last.res.allowed
    /\ last.res.remaining = 0
    /\ last.res.retryAfter > 0

\* C4: a call arriving strictly after windowStart + windowDuration resets the window: it
\* is allowed with remaining = maxRequests - 1 and the entry becomes
\* {count: 1, windowStart: now}; no call is denied when now - windowStart > windowDuration.
C4_ExpiredWindowResets ==
  (Evaluated /\ FoundExpired) =>
    /\ last.res = [allowed |-> TRUE, remaining |-> LastMax - 1]
    /\ LastMap[last.identifier].count = 1
    /\ LastMap[last.identifier].firstRequest = now

\* the reset of an identifier that was being denied
C4_Witness ==
  /\ Evaluated /\ FoundExpired
  /\ LastMax >= 1
  /\ PreEntry.count >= LastMax
  /\ last.res.allowed
  /\ LastMap[last.identifier].firstRequest > PreEntry.firstRequest + LastWindow

\* C5 as stated: the allowed decisions issued for an identifier within one window (from
\* one creation or reset of its entry to the next) never exceed maxRequests.
C5_AdmitsWithinMaxRequests ==
  \A l \in Limiters, id \in Ids : admits[l][id] <= maxRequests[l]

\* C5 amended: the allowed decisions issued for an identifier within one window never
\* exceed max(1, maxRequests), in any interleaving of atomic calls and sweeps.
C5_AdmitsWithinCap ==
  \A l \in Limiters, id \in Ids : admits[l][id] <= Max(1, maxRequests[l])

\* a call denied after the whole quota was admitted
C5_Witness ==
  /\ Evaluated /\ ~last.res.allowed
  /\ LastMax = MaxRequestsBound
  /\ admits[last.limiter][last.identifier] = LastMax
  /\ calls[last.limiter][last.identifier] > LastMax

\* the Map instance l reads and writes
StoreOf(l) == requests[MapOf(l)]

\* C6: an evaluate call or a sweep on one instance leaves the store of every other
\* instance unchanged, so exhausting an identifier on one instance does not change what
\* another instance decides for it.
C6_InstancesIndependent ==
  [][\A l \in Limiters : last'.limiter # l => StoreOf(l)' = StoreOf(l)]_vars

\* L2 admits the first request of an identifier that L1 is denying
C6_Witness ==
  /\ Evaluated /\ last.limiter = "L2" /\ last.pre = {} /\ last.res.allowed
  /\ last.identifier \in DOMAIN requests["L1"]
  /\ maxRequests["L1"] >= 1
  /\ requests["L1"][last.identifier].count >= maxRequests["L1"]
  /\ now - requests["L1"][last.identifier].firstRequest <= windowMs["L1"]

\* the allowed decisions of the log that fall in the span [from, from + windowMs]
AdmitsInSpan(log, from, w) == Cardinality({j \in DOMAIN log : log[j].at >= from /\ log[j].at <= from + w})

\* C7 as stated (for maxRequests >= 1; with maxRequests = 0 the first request alone
\* exceeds it): in any time span of length windowDuration, wherever it begins, an
\* instance admits at most maxRequests requests from one identifier.
C7_SlidingWindowCap ==
  \A l \in Limiters, id \in Ids :
    maxRequests[l] >= 1 =>
      \A i \in DOMAIN admitLog[l][id] :
        AdmitsInSpan(admitLog[l][id], admitLog[l][id][i].at, windowMs[l]) <= maxRequests[l]

\* C7 amended: in any time span of length windowDuration that begins at a window start
\* of the identifier (the creation or reset of its entry), an instance admits at most
\* max(1, maxRequests) requests from that identifier.
C7_FixedWindowCap ==
  \A l \in Limiters, id \in Ids :
    \A i \in DOMAIN admitLog[l][id] :
      admitLog[l][id][i].first =>
        AdmitsInSpan(admitLog[l][id], admitLog[l][id][i].at, windowMs[l]) <= Max(1, maxRequests[l])

\* a window filled up to its last instant, a call denied at that instant
C7_Witness ==
  /\ Evaluated /\ ~last.res.allowed /\ LastMax = MaxRequestsBound
  /\ now = PreEntry.firstRequest + LastWindow
  /\ \E i \in DOMAIN admitLog[last.limiter][last.identifier] :
       LET log == admitLog[last.limiter][last.identifier]
       IN /\ log[i].first
          /\ AdmitsInSpan(log, log[i].at, LastWindow) = LastMax
          /\ \E j \in DOMAIN log : log[j].at = now

\* C8: a sweep at time now keeps every entry with now - windowStart <= windowDuration,
\* with the same count and windowStart.
C8_SweepKeepsLiveEntries ==
  [][\A l \in Limiters :
       (last'.op = "cleanup" /\ last'.limiter = l) =>
         \A id \in DOMAIN StoreOf(l) :
           now - StoreOf(l)[id].firstRequest <= windowMs[l] =>
             /\ id \in DOMAIN StoreOf(l)'
             /\ StoreOf(l)'[id] = StoreOf(l)[id]]_vars

\* a sweep that removed an entry and kept one at the last instant of its window
C8_Witness ==
  /\ Swept /\ last.removed # {}
  /\ \E id \in DOMAIN LastMap : now - LastMap[id].firstRequest = LastWindow

\* C9: a sweep at time now removes an entry only when its window has been expired for
\* longer than one window duration, now - (windowStart + windowDuration) > windowDuration.
C9_SweepRemovesOnlyLongExpired ==
  [][\A l \in Limiters :
       (last'.op = "cleanup" /\ last'.limiter = l) =>
         \A id \in DOMAIN StoreOf(l) \ DOMAIN StoreOf(l)' :
           now - (StoreOf(l)[id].firstRequest + windowMs[l]) > windowMs[l]]_vars

\* C10: with sweeps interleaved anywhere, every evaluate call returns the decision the
\* same instance returns when no sweep ever runs; the first call after an eviction gets
\* what a never-seen identifier gets.
C10_SweepUnobservable ==
  Evaluated =>
    /\ last.res = last.resNoSweep
    /\ (last.pre = {} /\ last.preNoSweep # {}) =>
          last.res = [allowed |-> TRUE, remaining |-> LastMax - 1]

\* the first call after the eviction of an identifier that had used its whole quota
C10_Witness ==
  /\ Evaluated /\ last.pre = {} /\ last.preNoSweep # {}
  /\ LastMax >= 1
  /\ \E e \in last.preNoSweep : e.count >= LastMax
  /\ last.res.allowed

\* C17: a denied evaluate call changes nothing in the store: the entry of the denied
\* identifier keeps its count and windowStart and no other entry is created, changed or
\* removed.
C17_DenialChangesNothing ==
  [][(last'.op = "isAllowed" /\ ~last'.res.allowed) => requests' = requests]_vars

\* the second denial in a row, the count still at its value of the first denial
C17_Witness ==
  /\ Evaluated /\ ~last.res.allowed
  /\ calls[last.limiter][last.identifier] >= admits[last.limiter][last.identifier] + 2
  /\ LastMap[last.identifier] = PreEntry
  /\ \E other \in DOMAIN LastMap : other # last.identifier

\* C18: a denied decision carries retryAfter = ceil((windowDuration - (now - windowStart)) / 1000)
\* and resetTime = windowStart + windowDuration, of the entry's unchanged windowStart;
\* an allowed decision carries neither field.
C18_DecisionFields ==
  Evaluated =>
    IF last.res.allowed
    THEN DOMAIN last.res = {"allowed", "remaining"}
    ELSE LET left == LastWindow - (now - PreEntry.firstRequest)
         IN /\ DOMAIN last.res = {"allowed", "remaining", "retryAfter", "resetTime"}
            /\ last.res.retryAfter * 1000 >= left
            /\ (last.res.retryAfter - 1) * 1000 < left
            /\ last.res.resetTime = PreEntry.firstRequest + LastWindow
            /\ LastMap[last.identifier].firstRequest = PreEntry.firstRequest

\* a denial whose remaining time is not a whole number of seconds
C18_Witness ==
  /\ Evaluated /\ ~last.res.allowed
  /\ last.res.retryAfter * 1000 > LastWindow - (now - PreEntry.firstRequest)
  /\ last.res.retryAfter >= 1

\* C19: after a denial at time t with retryAfter = r, the next request for that
\* identifier, made at t + 1000 * r with no request for it in between, is admitted.
C19_RetryAdviceAdmits ==
  (Evaluated /\ last.preAdvice = now) => last.res.allowed

\* C20: every entry present in a store has count >= 1.
C20_CountAtLeastOne ==
  \A l \in Limiters : \A id \in DOMAIN requests[l] : requests[l][id].count >= 1

\* a sweep removed one entry and left one that was incremented
C20_Witness ==
  /\ Swept /\ last.removed # {}
  /\ \E id \in DOMAIN LastMap : LastMap[id].count = MaxRequestsBound

\* C11: an entry whose identifier makes no further request is eventually removed from
\* the store, the clock advancing and the periodic sweep firing.
C11_StaleEntriesReclaimed ==
  \A l \in ModuleLimiters, id \in SweepIds :
    (id \in DOMAIN requests[l]) ~>
      (\/ id \notin DOMAIN requests[l]
       \/ last.op = "isAllowed" /\ last.limiter = l /\ last.identifier = id)

\* a timer sweep of the general instance removed an entry that an earlier sweep had kept
C11_Witness ==
  /\ Swept /\ last.removed # {} /\ last.limiter = "general"
  /\ timer[last.limiter] = now + CleanupIntervalMs
  /\ now > CleanupIntervalMs + ModuleWindow["general"]
  /\ requests["strict"] = EmptyMap

(* ---- the request recorded in http ---- *)
\* the calls of next the request made, in order
NextCalls == SelectSeq(http.effects, LAMBDA e : e.op = "next")
\* the request was evaluated by the instance of its middleware
EvaluatedBy(mw) == http.handler = mw /\ Evaluated /\ last.limiter = LimiterOf[mw]

\* C14: a request whose method is not POST, PUT, PATCH or DELETE passes through
\* strictRateLimiter unevaluated: no store changes, no header is set, next is called
\* once with no error.
C14_NonWritePassesThrough ==
  [][(http'.handler = "strictRateLimiter" /\ http'.method \notin {"POST", "PUT", "PATCH", "DELETE"}) =>
       /\ requests' = requests
       /\ http'.effects = <<CallNext(NextOk)>>]_vars

\* a GET passed through while the client's Strict quota is used up
C14_Witness ==
  /\ http.handler = "strictRateLimiter" /\ http.method = "GET"
  /\ http.effects = <<CallNext(NextOk)>>
  /\ Client \in DOMAIN requests["strict"]
  /\ requests["strict"][Client].count >= 10
  /\ advice["strict"][Client] >= now

\* C15: each middleware that evaluates a request calls next exactly once, as its last
\* call: with no error when allowed; when denied with an error of status 429, right
\* after setting Retry-After to the decision's retryAfter, the message being the
\* middleware's own, for createRateLimiter its message argument or 'Rate limit exceeded'.
C15_NextCalledOnce ==
  \A mw \in Middlewares :
    EvaluatedBy(mw) =>
      LET n == Len(http.effects)
      IN /\ Len(NextCalls) = 1
         /\ http.effects[n].op = "next"
         /\ IF last.res.allowed
            THEN /\ http.effects[n].arg = NextOk
                 /\ \A i \in 1..n : http.effects[i].op = "set" => http.effects[i].name # "Retry-After"
            ELSE /\ http.effects[n].arg.error
                 /\ http.effects[n].arg.statusCode = 429
                 /\ http.effects[n - 1] = SetHeader("Retry-After", last.res.retryAfter)
                 /\ http.effects[n].arg.message =
                      CASE mw = "rateLimiter" -> "Too many requests. Please try again later."
                        [] mw = "strictRateLimiter" -> "Too many write requests. Please slow down."
                        [] mw = "custom" -> IF message \in {Undefined, ""}
                                            THEN "Rate limit exceeded" ELSE message

\* a denial by a createRateLimiter middleware made without a message
C15_Witness ==
  /\ EvaluatedBy("custom") /\ ~last.res.allowed
  /\ message = Undefined
  /\ NextCalls = <<CallNext(NextError("Rate limit exceeded", 429))>>
  /\ \A l \in DOMAIN requests : Client \in DOMAIN requests[l]

C13_EleventhWriteRejected ==
  (/\ http.handler = "router"
   /\ http.method \in {"POST", "PUT", "PATCH", "DELETE"}
   /\ http.writes >= 11) =>
     \E i \in DOMAIN http.effects :
       /\ http.effects[i].op = "next"
       /\ http.effects[i].arg.error
       /\ http.effects[i].arg.statusCode = 429

\* C16 (as stated): a request without a resolvable identifier, once handled, has been
\* evaluated, without a throw, under the key 'unknown', the counter all such requests share, and they are
\* admitted at most maxRequests times per window.
C16_UnknownSharesQuota ==
  (http.handler # "none" /\ ~http.resolvable /\ last.op # "tick") =>
    /\ Evaluated /\ last.identifier = "unknown"
    /\ Len(NextCalls) = 1
    /\ admits[last.limiter]["unknown"] <= maxRequests[last.limiter]

\* C16 (amended): as above, admitted at most max(1, maxRequests) times per window: the
\* request that opens a window is admitted whatever maxRequests is.
C16_UnknownSharesCap ==
  (http.handler # "none" /\ ~http.resolvable /\ last.op # "tick") =>
    /\ Evaluated /\ last.identifier = "unknown"
    /\ Len(NextCalls) = 1
    /\ admits[last.limiter]["unknown"] <= Max(1, maxRequests[last.limiter])

\* a request without identifier denied on the count requests of 'unknown' used up
C16_Witness ==
  /\ http.handler = "custom" /\ ~http.resolvable
  /\ Evaluated /\ last.identifier = "unknown" /\ ~last.res.allowed
  /\ maxRequests["custom"] >= 2
  /\ admits["custom"]["unknown"] = maxRequests["custom"]

\* C21: the windowStart recorded for an identifier never moves backward, evictions and
\* re-creations included: each recorded windowStart is at least the one recorded last,
\* and it changes only in a call for that identifier that finds no entry or an expired one.
C21_WindowStartMonotone ==
  [][\A l \in Limiters : \A id \in DOMAIN StoreOf(l)' :
       LET new == StoreOf(l)'[id].firstRequest
           created == id \notin DOMAIN StoreOf(l)
       IN /\ new >= hist[l][id].start
          /\ (created \/ StoreOf(l)[id].firstRequest # new) =>
               /\ last'.op = "isAllowed" /\ last'.limiter = l /\ last'.identifier = id
               /\ created \/ now - StoreOf(l)[id].firstRequest > windowMs[l]]_vars

\* an identifier evicted by a sweep and created again with a later windowStart
C21_Witness ==
  /\ Evaluated /\ last.pre = {} /\ last.preStart >= 0
  /\ LastMap[last.identifier].firstRequest > last.preStart
  /\ hist[last.limiter][last.identifier].start = now

\* C22: with maxRequests = 0 a call that finds no entry (never seen or evicted) or an
\* expired one is admitted, a call that finds an entry with now - windowStart <=
\* windowDuration is denied: exactly one request per identifier and window is admitted.
C22_ZeroQuotaAdmitsOne ==
  (Evaluated /\ LastMax = 0) =>
    /\ (last.pre = {} \/ FoundExpired) => last.res.allowed
    /\ FoundLive => ~last.res.allowed
    /\ admits[last.limiter][last.identifier] = 1

\* with maxRequests = 0, a denial at the last instant of the identifier's second window
C22_Witness ==
  /\ Evaluated /\ LastMax = 0 /\ ~last.res.allowed
  /\ now = PreEntry.firstRequest + LastWindow
  /\ PreEntry.firstRequest > LastWindow

\* C23: the count of every entry equals the number of requests admitted for its
\* identifier since the entry's windowStart, the creating or resetting request included;
\* denied attempts are not counted.
C23_CountIsAdmitted ==
  \A l \in Limiters : \A id \in DOMAIN StoreOf(l) :
    /\ StoreOf(l)[id].count = admits[l][id]
    /\ StoreOf(l)[id].count =
         Cardinality({j \in DOMAIN admitLog[l][id] :
                        admitLog[l][id][j].at >= StoreOf(l)[id].firstRequest})
         \/ now - StoreOf(l)[id].firstRequest > windowMs[l]

\* two denied attempts after the whole quota of a reset window was admitted
C23_Witness ==
  /\ Evaluated /\ ~last.res.allowed /\ LastMax = MaxRequestsBound
  /\ PreEntry.firstRequest > 0
  /\ LastMap[last.identifier].count = LastMax
  /\ calls[last.limiter][last.identifier] = LastMax + 2

\* C24: within one instance an evaluate call for one identifier leaves the entry of
\* every other identifier as it was, and its decision follows from the identifier's own
\* history (the windowStart recorded last for it, its admitted requests since) and the
\* clock, whatever the other identifiers did.
C24_IdentifiersIndependent ==
  [][last'.op = "isAllowed" =>
       LET l == last'.limiter
           id == last'.identifier
           m == maxRequests[l]
           live == hist[l][id].start >= 0 /\ now - hist[l][id].start <= windowMs[l]
           own == admits[l][id]
       IN /\ \A other \in Ids \ {id} : Get(requests'[MapOf(l)], other) = Get(requests[MapOf(l)], other)
          /\ last'.res.allowed <=> (~live \/ own < m)
          /\ last'.res.remaining =
               IF ~live THEN m - 1 ELSE IF own < m THEN m - own - 1 ELSE 0]_vars

\* an identifier admitted within its window while another identifier of the instance is
\* being denied
C24_Witness ==
  /\ Evaluated /\ FoundLive /\ last.res.allowed
  /\ \E other \in DOMAIN LastMap :
       /\ other # last.identifier
       /\ LastMap[other].count >= LastMax
       /\ now - LastMap[other].firstRequest <= LastWindow
       /\ hist[last.limiter][other].retry >= 0

\* C25: for maxRequests >= 1, in any time interval of length windowDuration an instance
\* admits at most 2 * maxRequests - 1 requests from one identifier (an interval holding
\* the most admissions begins at one of them).
C25_TwoWindowCap ==
  \A l \in Limiters, id \in Ids :
    maxRequests[l] >= 1 =>
      \A i \in DOMAIN admitLog[l][id] :
        AdmitsInSpan(admitLog[l][id], admitLog[l][id][i].at, windowMs[l])
          <= 2 * maxRequests[l] - 1

\* an interval that holds 2 * maxRequests - 1 admissions: all but the first of one
\* window and all of the next
C25_Witness ==
  /\ Evaluated /\ last.res.allowed /\ LastMax >= 2
  /\ LET log == admitLog[last.limiter][last.identifier]
     IN \E i \in DOMAIN log :
          /\ ~log[i].first
          /\ AdmitsInSpan(log, log[i].at, LastWindow) = 2 * LastMax - 1

\* C26: every entry's count is at most max(1, maxRequests), whatever the number of
\* requests, denials, resets and sweeps.
C26_CountWithinCap ==
  \A l \in Limiters : \A id \in DOMAIN StoreOf(l) :
    StoreOf(l)[id].count <= Max(1, maxRequests[l])

\* a third call denied in a window opened by a reset, the count at maxRequests
C26_Witness ==
  /\ Evaluated /\ ~last.res.allowed /\ LastMax >= 2
  /\ PreEntry.firstRequest > 0
  /\ LastMap[last.identifier].count = LastMax
  /\ calls[last.limiter][last.identifier] > LastMax + 1

\* C27: once a request of an identifier is denied, every later request for it made up
\* to and including windowStart + windowDuration is denied too, with a retryAfter that
\* does not increase from one denial to the next, whatever sweeps and requests of other
\* identifiers come in between.
C27_DenialSticky ==
  (/\ Evaluated
   /\ last.preRetry >= 0
   /\ now <= last.preStart + LastWindow) =>
     /\ ~last.res.allowed
     /\ last.res.retryAfter <= last.preRetry

\* a denial at the last instant of the window, after an earlier denial with a larger
\* retryAfter
C27_Witness ==
  /\ Evaluated /\ ~last.res.allowed
  /\ last.preRetry > last.res.retryAfter
  /\ now = last.preStart + LastWindow
  /\ \E other \in DOMAIN LastMap : other # last.identifier

\* C28: in registerUser and loginUser, when request validation fails the handler
\* forwards exactly one 400 error through next and stops there: no user lookup, no save,
\* no token, no second call of next and no response.
C28_ValidationFailureStops ==
  (user.pc \notin {"idle", "validate"} /\ ~user.req.valid) =>
    user.did = <<CallNext(NextError("validation", 400))>>

(* ---- the addStock requests recorded in watch ---- *)
\* the requests made for a symbol, those among them answered 201 and those ended
\* with the 409 error
AddersOf(sym) == {r \in Adders : watch.reqs[r].pc # "new" /\ watch.reqs[r].symbol = sym}
Created(sym) == {r \in AddersOf(sym) : watch.reqs[r].out = [statusCode |-> 201]}
Duplicates(sym) == {r \in AddersOf(sym) : watch.reqs[r].out = DuplicateStock}
Settled(sym) == AddersOf(sym) # {} /\ \A r \in AddersOf(sym) : watch.reqs[r].pc = "done"

C30_RetriesUntilConnected ==
  /\ [][db'.failures # db.failures =>
          /\ db'.timers = <<db.at + 5000>>
          /\ db'.pc = "waiting"]_vars
  /\ [][(db.pc = "waiting" /\ db'.pc = "connecting") =>
          /\ db.at = Head(db.timers)
          /\ db'.timers = <<>>]_vars
  /\ <>[](db.up) => <>(db.pc = "connected")
  /\ [](db.pc = "connected" => [](db.pc = "connected" /\ db.timers = <<>>))

\* connected at the seventh attempt, after more failures than maxRetries, each retry
\* 5 seconds after its failure
C30_Witness ==
  /\ db.pc = "connected"
  /\ db.failures = 6
  /\ db.timers = <<>>
  /\ db.started >= 6 * 5000
====
